---- MODULE Spec2Model ----
(***************************************************************************)
(* PGSLEngine (src/unnamed/part_002): the content-addressed lattice engine. *)
(*                                                                         *)
(* JavaScript values are modelled as tagged records.  A string is a        *)
(* sequence of text chunks, split so that the substrings the code looks    *)
(* for ("://", "did:", a trailing "/") are always whole chunks; numbers    *)
(* are integers; the only objects that are not node records are the        *)
(* members a plain object inherits from Object.prototype.                  *)
(* The engine's three maps are plain objects ({}), so a property read      *)
(* falls through to Object.prototype when the key is not an own property.  *)
(* prov:generatedAtTime (a wall-clock timestamp) and the constant          *)
(* "@context" carry no behaviour and are left out of the node records.    *)
(***************************************************************************)
EXTENDS Integers, Sequences, FiniteSets, TLC

VARIABLES
    state,      \* this.state: [atomRegistry, fragmentRegistry, nodeRepository]
    listeners,  \* this.listeners, in subscription order
    authority,  \* this.authority
    agent,      \* this.agent
    uuid,       \* number of identifiers generateUUID has handed out
    handles     \* callbacks for which subscribe has returned an unsubscribe closure

vars == <<state, listeners, authority, agent, uuid, handles>>

----------------------------------------------------------------------------
(* Bounds of the model *)

MaxLen == 2
MaxUuid == 5
MaxListeners == 2

----------------------------------------------------------------------------
(* JavaScript values *)

Str(chunks) == [t |-> "string", s |-> chunks]
Num(n) == [t |-> "number", n |-> n]
Undefined == [t |-> "undefined"]
Inherited(key) == [t |-> "object", inherited |-> key]

IsString(x) == x.t = "string"

\* names every plain object inherits from Object.prototype
ObjectPrototypeKeys ==
    {"constructor", "toString", "valueOf", "hasOwnProperty", "isPrototypeOf",
     "propertyIsEnumerable", "toLocaleString", "__proto__"}

\* String(x)
String(x) ==
    CASE x.t = "string" -> x
      [] x.t = "number" -> Str(<<ToString(x.n)>>)
      [] x.t = "undefined" -> Str(<<"undefined">>)
      [] x.t = "object" ->
            IF x.inherited = "__proto__"
            THEN Str(<<"[object Object]">>)
            ELSE Str(<<"function ",
                       IF x.inherited = "constructor" THEN "Object" ELSE x.inherited,
                       "() { [native code] }">>)

\* x is truthy: if (x), !x, x || y
Truthy(x) ==
    CASE x.t = "string" -> x.s # <<>>
      [] x.t = "number" -> x.n # 0
      [] x.t = "undefined" -> FALSE
      [] OTHER -> TRUE

\* str.includes(chunk), str.startsWith(chunk), at chunk granularity
includes(str, chunk) == \E i \in 1..Len(str.s) : str.s[i] = chunk
startsWith(str, chunk) == Len(str.s) > 0 /\ str.s[1] = chunk

\* obj[key] on a plain object whose own properties are the function obj
Get(obj, key) ==
    LET k == String(key) IN
    IF k \in DOMAIN obj THEN obj[k]
    ELSE IF Len(k.s) = 1 /\ k.s[1] \in ObjectPrototypeKeys THEN Inherited(k.s[1])
    ELSE Undefined

\* obj[key] = val
Put(obj, key, val) == (String(key) :> val) @@ obj

\* JSON.stringify of an array of strings and functions
RECURSIVE JSONelements(_)
JSONelements(content) ==
    IF content = <<>> THEN <<>>
    ELSE LET x == Head(content)
             one == IF IsString(x) THEN <<"\"">> \o x.s \o <<"\"">>
                    ELSE IF x.t = "object" /\ x.inherited = "__proto__" THEN <<"{}">>
                    ELSE <<"null">>
         IN one \o (IF Len(content) > 1 THEN <<",">> ELSE <<>>) \o JSONelements(Tail(content))

\* mutant: the key is taken from the content put in one fixed order,
\* as JSON.stringify([...content].sort()) would
JSONstringify_sorted(content) ==
    LET n == Len(content)
        orders == {[i \in 1..n |-> content[p[i]]] :
                     p \in {b \in [1..n -> 1..n] : \A i, j \in 1..n : i # j => b[i] # b[j]}}
    IN Str(<<"[">> \o JSONelements(CHOOSE q \in orders : TRUE) \o <<"]">>)

JSONstringify(content) == Str(<<"[">> \o JSONelements(content) \o <<"]">>)

\* arr.slice(from, to), 0-based, to exclusive
slice(arr, from, to) == SubSeq(arr, from + 1, to)

Max(a, b) == IF a >= b THEN a ELSE b

----------------------------------------------------------------------------
(* types.ts *)

ATOM == "pgsl:Atom"
FRAGMENT == "pgsl:Fragment"

\* node["@type"].includes(t)
typeIncludes(node, t) == \E i \in 1..Len(node.type) : node.type[i] = t

\* the value read is a node record (an own entry of nodeRepository)
IsNode(x) == x.t = "node"

----------------------------------------------------------------------------
(* The engine: a call threads e = [state, uuid, listeners, authority, agent, *)
(* notified, console, busy] through its steps; notified lists the listener  *)
(* calls made so far, in order, console the console.error calls, and busy   *)
(* the callbacks that are in the middle of a call they made to the engine   *)

DefaultAuthority == Str(<<"http", "://", "localhost:3000">>)
DefaultAgent == Str(<<"did:", "web:localhost:user:default">>)

EmptyState == [atomRegistry |-> <<>>, fragmentRegistry |-> <<>>, nodeRepository |-> <<>>]

Engine ==
    [state |-> state, uuid |-> uuid, listeners |-> listeners,
     authority |-> authority, agent |-> agent, notified |-> <<>>,
     console |-> <<>>, busy |-> {}]

\* a callback whose body calls a mutating method of the engine
IsReentrant(listener) == "does" \in DOMAIN listener

\* the call a re-entrant callback makes, defined with the methods below
RECURSIVE perform(_, _)

\* listener(): the callback sees the current state; a re-entrant callback
\* that is not already inside its own call makes its call to the engine
invoke(e, listener) ==
    LET called == [e EXCEPT !.notified =
                       Append(@, [listener |-> listener, saw |-> e.state])]
    IN IF IsReentrant(listener) /\ listener \notin e.busy
       THEN [perform([called EXCEPT !.busy = @ \cup {listener}], listener.does)
                EXCEPT !.busy = e.busy]
       ELSE called

\* this.listeners.forEach(listener => listener()), from index i
RECURSIVE forEach(_, _, _)
forEach(e, ls, i) ==
    IF i > Len(ls) THEN e ELSE forEach(invoke(e, ls[i]), ls, i + 1)

\* notify(): every listener is called once, in order, and sees the current state
notify(e) == forEach(e, e.listeners, 1)

\* getNode(uri): nodeRepository[uri]
getNode(e, uri) ==
    LET k == String(uri)
        repo == e.state.nodeRepository
        own == {i \in 1..Len(repo) : repo[i].id = k}
    IN IF own # {} THEN repo[CHOOSE i \in own : TRUE]
       ELSE IF Len(k.s) = 1 /\ k.s[1] \in ObjectPrototypeKeys THEN Inherited(k.s[1])
       ELSE Undefined

\* mutant: the generated part is the same for every id
mintURI_sameUUID(e, type) == Str(e.authority.s \o <<"/", type, "/", "1">>)

\* mintURI(type): `${authority}/${type}/${generateUUID()}`
mintURI(e, type) == Str(e.authority.s \o <<"/", type, "/", ToString(e.uuid + 1)>>)

\* mutant: the listeners are notified before the atom is registered
newAtom_notifiesBeforeRegistering(e, value) ==
    LET stringKey == String(value)
        newUri == mintURI(e, "atoms")
        atomNode == [t |-> "node", id |-> newUri,
                     type |-> <<ATOM, "prov:Entity">>,
                     value |-> value, level |-> 0, height |-> 0,
                     attributedTo |-> e.agent]
        e1 == [e EXCEPT !.uuid = @ + 1,
                        !.state.nodeRepository = Append(@, atomNode)]
    IN [e |-> [notify(e1) EXCEPT !.state.atomRegistry = Put(@, stringKey, newUri)],
        ret |-> newUri, threw |-> FALSE]

\* getCanonicalAtom(value), registry miss: mint, store, register, notify
newAtom(e, value) ==
    LET stringKey == String(value)
        newUri == mintURI(e, "atoms")
        atomNode == [t |-> "node", id |-> newUri,
                     type |-> <<ATOM, "prov:Entity">>,
                     value |-> value, level |-> 0, height |-> 0,
                     attributedTo |-> e.agent]
        e1 == [e EXCEPT !.uuid = @ + 1,
                        !.state.nodeRepository = Append(@, atomNode),
                        !.state.atomRegistry = Put(@, stringKey, newUri)]
    IN [e |-> notify(e1), ret |-> newUri, threw |-> FALSE]

\* mutant: the registry is never consulted
getCanonicalAtom_alwaysMints(e, value) == newAtom(e, value)

\* getCanonicalAtom(value)
getCanonicalAtom(e, value) ==
    LET stringKey == String(value)
        found == Get(e.state.atomRegistry, stringKey)
    IN IF Truthy(found) THEN [e |-> e, ret |-> found, threw |-> FALSE]
       ELSE newAtom(e, value)

\* getFragmentUri(content): fragmentRegistry[JSON.stringify(content)]
getFragmentUri(e, content) == Get(e.state.fragmentRegistry, JSONstringify(content))

\* mutant: every looked-up node counts as height 0
heightOrZero_zero(node) == 0

\* node["pgsl:height"] of a looked-up constituent or child, 0 when not found
heightOrZero(node) == IF Truthy(node) THEN node.height ELSE 0

\* mutant: the level is counted from zero
newFragment_levelFromZero(e, content, constituents) ==
    LET registryKey == JSONstringify(content)
        newUri == mintURI(e, "fragments")
        height ==
            IF constituents # <<>>
            THEN Max(heightOrZero(getNode(e, constituents[1])),
                     heightOrZero(getNode(e, constituents[2]))) + 1
            ELSE heightOrZero(getNode(e, content[1])) + 1
        fragmentNode == [t |-> "node", id |-> newUri,
                         type |-> <<FRAGMENT, "prov:Entity">>,
                         level |-> Len(content) - 1, height |-> height,
                         content |-> content, constituents |-> constituents,
                         attributedTo |-> e.agent]
        e1 == [e EXCEPT !.uuid = @ + 1,
                        !.state.nodeRepository = Append(@, fragmentNode),
                        !.state.fragmentRegistry = Put(@, registryKey, newUri)]
    IN [e |-> e1, ret |-> newUri]

\* getCanonicalFragment(content, constituents), registry miss: mint, compute the
\* height, store, register; constituents <<>> is null
newFragment(e, content, constituents) ==
    LET registryKey == JSONstringify(content)
        newUri == mintURI(e, "fragments")
        level == Len(content)
        height ==
            IF constituents # <<>>
            THEN Max(heightOrZero(getNode(e, constituents[1])),
                     heightOrZero(getNode(e, constituents[2]))) + 1
            ELSE heightOrZero(getNode(e, content[1])) + 1
        fragmentNode == [t |-> "node", id |-> newUri,
                         type |-> <<FRAGMENT, "prov:Entity">>,
                         level |-> level, height |-> height,
                         content |-> content, constituents |-> constituents,
                         attributedTo |-> e.agent]
        e1 == [e EXCEPT !.uuid = @ + 1,
                        !.state.nodeRepository = Append(@, fragmentNode),
                        !.state.fragmentRegistry = Put(@, registryKey, newUri)]
    IN [e |-> e1, ret |-> newUri]

\* mutant: the registry is never consulted
getCanonicalFragment_alwaysMints(e, content, constituents) ==
    newFragment(e, content, constituents)

\* getCanonicalFragment(content, constituents)
getCanonicalFragment(e, content, constituents) ==
    LET registryKey == JSONstringify(content)
        found == Get(e.state.fragmentRegistry, registryKey)
    IN IF Truthy(found) THEN [e |-> e, ret |-> found]
       ELSE newFragment(e, content, constituents)

\* isURI: strItem.includes('://') || strItem.startsWith('did:')
isURI(strItem) == includes(strItem, "://") \/ startsWith(strItem, "did:")

\* items.map(item => isURI ? strItem : this.getCanonicalAtom(item)), left to right
RECURSIVE mapBaseUris(_, _, _)

\* the map goes on after item gave r.ret
mapped(r, rest, acc) == mapBaseUris(r.e, rest, Append(acc, r.ret))

mapBaseUris(e, items, acc) ==
    IF items = <<>> THEN [e |-> e, ret |-> acc]
    ELSE LET item == Head(items)
             strItem == String(item)
         IN mapped(IF isURI(strItem) THEN [e |-> e, ret |-> strItem]
                   ELSE getCanonicalAtom(e, item),
                   Tail(items), acc)

\* baseUris.map(baseUri => this.getCanonicalFragment([baseUri], null))
RECURSIVE mapLevel1(_, _, _)
mapLevel1(e, baseUris, acc) ==
    IF baseUris = <<>> THEN [e |-> e, ret |-> acc]
    ELSE LET r == getCanonicalFragment(e, <<Head(baseUris)>>, <<>>)
         IN mapLevel1(r.e, Tail(baseUris), Append(acc, r.ret))

\* the two nested loops: for len in 2..N, for i in 0..N-len
RECURSIVE hierarchy(_, _, _, _, _)
hierarchy(e, baseUris, len, i, topFragmentUri) ==
    LET N == Len(baseUris) IN
    IF len > N THEN [e |-> e, ret |-> topFragmentUri]
    ELSE IF i > N - len THEN hierarchy(e, baseUris, len + 1, 0, topFragmentUri)
    ELSE LET currentContent == slice(baseUris, i, i + len)
             leftContent == slice(baseUris, i, i + len - 1)
             rightContent == slice(baseUris, i + 1, i + len)
             leftUri == Get(e.state.fragmentRegistry, JSONstringify(leftContent))
             rightUri == Get(e.state.fragmentRegistry, JSONstringify(rightContent))
         IN IF ~Truthy(leftUri) \/ ~Truthy(rightUri)
            THEN hierarchy([e EXCEPT !.console = Append(@, currentContent)],
                           baseUris, len, i + 1, topFragmentUri)
            ELSE LET r == getCanonicalFragment(e, currentContent, <<leftUri, rightUri>>)
                 IN hierarchy(r.e, baseUris, len, i + 1,
                              IF len = N THEN r.ret ELSE topFragmentUri)

\* this.notify(); return topFragmentUri
finished(h) == [e |-> notify(h.e), ret |-> h.ret, threw |-> FALSE]

\* step 3 and the return: the loops over b.ret, then notify
built(b, w) ==
    IF Len(w.ret) = 1
    THEN [e |-> notify(w.e), ret |-> w.ret[1], threw |-> FALSE]
    ELSE finished(hierarchy(w.e, b.ret, 2, 0, w.ret[1]))

\* step 2: the wrappers of the normalised ids b.ret
wrapped(b) == built(b, mapLevel1(b.e, b.ret, <<>>))

\* ingestSequence(items) past the empty check: normalise, wrap, build, notify
ingestNonEmpty(e, items) == wrapped(mapBaseUris(e, items, <<>>))

\* mutant: no empty check; the maps and loops run over nothing, then notify
ingestSequence_noEmptyCheck(e, items) ==
    IF Len(items) = 0
    THEN [e |-> notify(e), ret |-> Undefined, threw |-> FALSE]
    ELSE ingestNonEmpty(e, items)

\* ingestSequence(items): throws "Sequence cannot be empty" before anything else
ingestSequence(e, items) ==
    IF Len(items) = 0
    THEN [e |-> e, ret |-> Undefined, threw |-> TRUE]
    ELSE ingestNonEmpty(e, items)

\* mutant: the registries are not cleaned
withoutValue_keepsAll(registry, uri) == registry

\* the own entries of a registry that deleteNode keeps: val === uri is deleted
withoutValue(registry, uri) ==
    LET keep == {k \in DOMAIN registry : registry[k] # uri}
    IN [k \in keep |-> registry[k]]

\* mutant: the fragments that list uri are deleted with it
deleteNode_cascades(e, uri) ==
    LET lists(n) == /\ typeIncludes(n, FRAGMENT)
                    /\ \/ \E i \in 1..Len(n.content) : n.content[i] = uri
                       \/ \E i \in 1..Len(n.constituents) : n.constituents[i] = uri
        repo == SelectSeq(e.state.nodeRepository,
                          LAMBDA n : n.id # String(uri) /\ ~lists(n))
        left == {repo[i].id : i \in 1..Len(repo)}
        kept(registry) == [k \in {j \in DOMAIN registry : registry[j] \in left}
                              |-> registry[k]]
        e1 == [e EXCEPT !.state.nodeRepository = repo,
                        !.state.atomRegistry = kept(@),
                        !.state.fragmentRegistry = kept(@)]
    IN [e |-> notify(e1), ret |-> Undefined, threw |-> FALSE]

\* mutant: nothing is announced when the repository holds no such node
deleteNode_silentWhenAbsent(e, uri) ==
    LET repo == SelectSeq(e.state.nodeRepository, LAMBDA n : n.id # String(uri))
        e1 == [e EXCEPT !.state.nodeRepository = repo,
                        !.state.atomRegistry = withoutValue(@, uri),
                        !.state.fragmentRegistry = withoutValue(@, uri)]
    IN [e |-> IF repo = e.state.nodeRepository THEN e1 ELSE notify(e1),
        ret |-> Undefined, threw |-> FALSE]

\* mutant: the registries are cleaned but the repository keeps the node
deleteNode_registryOnly(e, uri) ==
    LET e1 == [e EXCEPT !.state.atomRegistry = withoutValue(@, uri),
                        !.state.fragmentRegistry = withoutValue(@, uri)]
    IN [e |-> notify(e1), ret |-> Undefined, threw |-> FALSE]

\* deleteNode(uri)
deleteNode(e, uri) ==
    LET repo == SelectSeq(e.state.nodeRepository, LAMBDA n : n.id # String(uri))
        e1 == [e EXCEPT !.state.nodeRepository = repo,
                        !.state.atomRegistry = withoutValue(@, uri),
                        !.state.fragmentRegistry = withoutValue(@, uri)]
    IN [e |-> notify(e1), ret |-> Undefined, threw |-> FALSE]

\* mutant: only the repository is replaced, the registries keep their entries
reset_keepsRegistries(e) ==
    [e |-> notify([e EXCEPT !.state.nodeRepository = <<>>]),
     ret |-> Undefined, threw |-> FALSE]

\* reset()
reset(e) ==
    [e |-> notify([e EXCEPT !.state = EmptyState]), ret |-> Undefined, threw |-> FALSE]

\* the body of a re-entrant callback: one call of a mutating method; the
\* deleting callback deletes the node getAllNodes() lists last, if any
perform(e, call) ==
    LET repo == e.state.nodeRepository IN
    CASE call.op = "reset" -> reset(e).e
      [] call.op = "deleteNode" ->
            IF repo = <<>> THEN e ELSE deleteNode(e, repo[Len(repo)].id).e
      [] call.op = "getCanonicalAtom" -> getCanonicalAtom(e, call.items[1]).e
      [] call.op = "ingestSequence" -> ingestSequence(e, call.items).e

\* subscribe(listener): this.listeners.push(listener)
subscribe(ls, listener) == Append(ls, listener)

\* mutant: the authority is stored as given
withoutTrailingSlash_asGiven(str) == str

\* authority.replace(/\/$/, ''): one trailing "/" is removed
withoutTrailingSlash(str) ==
    IF Len(str.s) > 0 /\ str.s[Len(str.s)] = "/"
    THEN Str(SubSeq(str.s, 1, Len(str.s) - 1))
    ELSE str

\* setFederationConfig(authority, agent)
setFederationConfig(e, newAuthority, newAgent) ==
    [e |-> [e EXCEPT !.authority = withoutTrailingSlash(newAuthority),
                     !.agent = newAgent],
     ret |-> Undefined, threw |-> FALSE]

\* getFederationConfig()
getFederationConfig(e) == [authority |-> e.authority, agent |-> e.agent]

\* getAllNodes(): Object.values(nodeRepository), in insertion order
getAllNodes(e) == e.state.nodeRepository

\* mutant: the closure removes the first registration of its callback only
unsubscribe_oneRegistration(ls, listener) ==
    LET at == {i \in 1..Len(ls) : ls[i] = listener} IN
    IF at = {} THEN ls
    ELSE LET first == CHOOSE i \in at : \A j \in at : i <= j
         IN SubSeq(ls, 1, first - 1) \o SubSeq(ls, first + 1, Len(ls))

\* mutant: the closure filters nothing out
unsubscribe_keepsAll(ls, listener) == ls

\* the closure subscribe returns: this.listeners.filter(l => l !== listener)
unsubscribe(ls, listener) == SelectSeq(ls, LAMBDA l : l # listener)

----------------------------------------------------------------------------
(* Topology queries and the string resolver: readers of e.state.            *)
(* A reader returns [threw, ret]; threw is a TypeError raised by reading a  *)
(* property of undefined.                                                   *)

Value(x) == [threw |-> FALSE, ret |-> x]
TypeError == [threw |-> TRUE, ret |-> Undefined]

\* node["@type"] is an array only on node records; on an inherited member of
\* Object.prototype it is undefined and .includes throws
hasType(node) == IsNode(node)

\* promoteToStructural(uri)
promoteToStructural(e, uri) ==
    LET node == getNode(e, uri) IN
    IF ~Truthy(node) THEN Value(uri)
    ELSE IF ~hasType(node) THEN TypeError
    ELSE IF typeIncludes(node, ATOM)
         THEN LET wrapper == getFragmentUri(e, <<uri>>)
              IN Value(IF Truthy(wrapper) THEN wrapper ELSE uri)
         ELSE Value(uri)

\* demoteToAtom(uri)
demoteToAtom(e, uri) ==
    LET node == getNode(e, uri) IN
    IF ~Truthy(node) THEN Value(uri)
    ELSE IF ~hasType(node) THEN TypeError
    ELSE IF typeIncludes(node, FRAGMENT) /\ node.level = 1 /\ Len(node.content) = 1
         THEN Value(node.content[1])
         ELSE Value(uri)

\* the scan of findParentNode over Object.values(nodeRepository), from index i
RECURSIVE scanParent(_, _, _, _)
scanParent(nodes, i, safeLeft, safeRight) ==
    IF i > Len(nodes) THEN Undefined
    ELSE LET node == nodes[i] IN
         IF /\ typeIncludes(node, FRAGMENT)
            /\ node.constituents # <<>>
            /\ node.constituents[1] = safeLeft
            /\ node.constituents[2] = safeRight
         THEN node.id
         ELSE scanParent(nodes, i + 1, safeLeft, safeRight)

\* findParentNode(leftUri, rightUri)
findParentNode(e, leftUri, rightUri) ==
    LET safeLeft == promoteToStructural(e, leftUri)
        safeRight == promoteToStructural(e, rightUri)
    IN IF safeLeft.threw \/ safeRight.threw THEN TypeError
       ELSE Value(scanParent(e.state.nodeRepository, 1, safeLeft.ret, safeRight.ret))

\* the scan of findNeighbors, from index i, results so far in acc
RECURSIVE scanNeighbors(_, _, _, _, _)
scanNeighbors(e, i, effectiveTarget, direction, acc) ==
    LET nodes == e.state.nodeRepository IN
    IF i > Len(nodes) THEN Value(acc)
    ELSE LET node == nodes[i]
             constituents == node.constituents
             rawNeighbor ==
                 IF ~typeIncludes(node, FRAGMENT) \/ constituents = <<>> THEN Undefined
                 ELSE IF direction = "left" /\ constituents[2] = effectiveTarget
                      THEN constituents[1]
                 ELSE IF direction = "right" /\ constituents[1] = effectiveTarget
                      THEN constituents[2]
                 ELSE Undefined
         IN IF ~Truthy(rawNeighbor)
            THEN scanNeighbors(e, i + 1, effectiveTarget, direction, acc)
            ELSE LET cleanNeighbor == demoteToAtom(e, rawNeighbor) IN
                 IF cleanNeighbor.threw THEN TypeError
                 ELSE scanNeighbors(e, i + 1, effectiveTarget, direction,
                          Append(acc, [neighbor |-> cleanNeighbor.ret, pair |-> node.id]))

\* mutant: the target is not promoted to its wrapper
findNeighbors_noPromotion(e, targetUri, direction) ==
    scanNeighbors(e, 1, targetUri, direction, <<>>)

\* findNeighbors(targetUri, direction)
findNeighbors(e, targetUri, direction) ==
    LET effectiveTarget == promoteToStructural(e, targetUri) IN
    IF effectiveTarget.threw THEN TypeError
    ELSE scanNeighbors(e, 1, effectiveTarget.ret, direction, <<>>)

\* the scan of getDebugNeighbors, from index i
RECURSIVE scanDebug(_, _, _, _)
scanDebug(nodes, i, effectiveTarget, acc) ==
    IF i > Len(nodes) THEN acc
    ELSE LET node == nodes[i]
             scanned == typeIncludes(node, FRAGMENT) /\ node.constituents # <<>>
             first == IF scanned /\ node.constituents[1] = effectiveTarget
                      THEN <<[relation |-> "Parent is (Target, Neighbor)",
                              neighbor |-> node.constituents[2], parent |-> node.id]>>
                      ELSE <<>>
             second == IF scanned /\ node.constituents[2] = effectiveTarget
                       THEN <<[relation |-> "Parent is (Neighbor, Target)",
                               neighbor |-> node.constituents[1], parent |-> node.id]>>
                       ELSE <<>>
         IN scanDebug(nodes, i + 1, effectiveTarget, acc \o first \o second)

\* getDebugNeighbors(targetUri)
getDebugNeighbors(e, targetUri) ==
    LET effectiveTarget == promoteToStructural(e, targetUri) IN
    IF effectiveTarget.threw THEN TypeError
    ELSE Value(scanDebug(e.state.nodeRepository, 1, effectiveTarget.ret, <<>>))

\* resolveContentString(uri); content.map(...).join(' ') is resolveJoin
RECURSIVE resolveContentString(_, _)
RECURSIVE resolveJoin(_, _, _)
resolveJoin(e, content, i) ==
    IF i > Len(content) THEN Value(<<>>)
    ELSE LET one == resolveContentString(e, content[i])
             rest == resolveJoin(e, content, i + 1)
         IN IF one.threw \/ rest.threw THEN TypeError
            ELSE Value(one.ret.s \o (IF i < Len(content) THEN <<" ">> ELSE <<>>) \o rest.ret)

\* mutant: no check for a missing node, so reading its "@type" throws
resolveContentString_unguarded(e, uri) ==
    LET node == getNode(e, uri) IN
    IF ~hasType(node) THEN TypeError
    ELSE IF typeIncludes(node, ATOM) THEN Value(String(node.value))
    ELSE IF Len(node.content) = 0 THEN Value(Str(<<"()">>))
    ELSE IF Len(node.content) = 1 THEN resolveContentString(e, node.content[1])
    ELSE LET inner == resolveJoin(e, node.content, 1) IN
         IF inner.threw THEN TypeError
         ELSE Value(Str(<<"(">> \o inner.ret \o <<")">>))

\* mutant: a composite is rendered from its constituents
resolveContentString_overConstituents(e, uri) ==
    LET node == getNode(e, uri) IN
    IF ~Truthy(node) THEN Value(Str(<<"<?>">>))
    ELSE IF ~hasType(node) THEN TypeError
    ELSE IF typeIncludes(node, ATOM) THEN Value(String(node.value))
    ELSE IF Len(node.content) = 0 THEN Value(Str(<<"()">>))
    ELSE IF Len(node.content) = 1 THEN resolveContentString(e, node.content[1])
    ELSE LET inner == resolveJoin(e, node.constituents, 1) IN
         IF inner.threw THEN TypeError
         ELSE Value(Str(<<"(">> \o inner.ret \o <<")">>))

resolveContentString(e, uri) ==
    LET node == getNode(e, uri) IN
    IF ~Truthy(node) THEN Value(Str(<<"<?>">>))
    ELSE IF ~hasType(node) THEN TypeError
    ELSE IF typeIncludes(node, ATOM) THEN Value(String(node.value))
    ELSE IF Len(node.content) = 0 THEN Value(Str(<<"()">>))
    ELSE IF Len(node.content) = 1 THEN resolveContentString(e, node.content[1])
    ELSE LET inner == resolveJoin(e, node.content, 1) IN
         IF inner.threw THEN TypeError
         ELSE Value(Str(<<"(">> \o inner.ret \o <<")">>))

\* id.split('/').pop(): the chunks after the last "/"
RECURSIVE splitPop(_)
splitPop(chunks) ==
    IF \A i \in 1..Len(chunks) : chunks[i] # "/" THEN chunks
    ELSE splitPop(Tail(chunks))

\* A query text is modelled as its sequence of tokens: q.replace(/\s+/g, ' ')
\* and the \s* of the patterns make the white space between tokens immaterial.
\* <id> is a reference token, ?name a variable token, anything else a word.
Word(w) == [k |-> "word", v |-> Str(<<w>>)]
Ref(id) == [k |-> "ref", v |-> id]
Var(name) == [k |-> "var", v |-> Str(<<name>>)]

\* the three patterns, token by token; a set lists the alternatives of a group
parentPattern ==
    <<{"pgsl:constituents"}, {"["}, {"<>"}, {","}, {"<>"}, {"]"}>>
leftPattern ==
    <<{"pgsl:constituents"}, {"["}, {"?left", "?s"}, {","}, {"<>"}, {"]"}>>
rightPattern ==
    <<{"pgsl:constituents"}, {"["}, {"<>"}, {","}, {"?right", "?o"}, {"]"}>>

\* token tok is matched by the pattern element alternatives
matchesToken(tok, alternatives) ==
    CASE tok.k = "ref" -> "<>" \in alternatives
      [] tok.k = "var" -> \E name \in alternatives : tok.v = Str(<<name>>)
      [] OTHER -> \E w \in alternatives : w # "<>" /\ tok.v = Str(<<w>>)

\* the pattern matches the tokens of q that start at position k
matchesAt(q, k, pattern) ==
    /\ k + Len(pattern) - 1 <= Len(q)
    /\ \A i \in 1..Len(pattern) : matchesToken(q[k + i - 1], pattern[i])

\* q.match(pattern): the two groups of the leftmost match, <<>> for null
match(q, pattern) ==
    LET at == {k \in 1..Len(q) : matchesAt(q, k, pattern)} IN
    IF at = {} THEN <<>>
    ELSE LET first == CHOOSE k \in at : \A j \in at : k <= j
         IN [i \in 1..2 |-> q[first + 2 * i].v]

\* executeSPARQL(query)
executeSPARQL(e, query) ==
    LET parentMatch == match(query, parentPattern)
        leftMatch == match(query, leftPattern)
        rightMatch == match(query, rightPattern)
    IN IF parentMatch # <<>>
       THEN LET p == findParentNode(e, parentMatch[1], parentMatch[2]) IN
            IF p.threw THEN TypeError
            ELSE Value(IF Truthy(p.ret) THEN <<p.ret>> ELSE <<>>)
       ELSE IF leftMatch # <<>>
       THEN LET found == findNeighbors(e, leftMatch[2], "left") IN
            IF found.threw THEN TypeError
            ELSE Value([i \in 1..Len(found.ret) |-> found.ret[i].neighbor])
       ELSE IF rightMatch # <<>>
       THEN LET found == findNeighbors(e, rightMatch[1], "right") IN
            IF found.threw THEN TypeError
            ELSE Value([i \in 1..Len(found.ret) |-> found.ret[i].neighbor])
       ELSE Value(<<>>)

\* the query texts: pgsl:constituents [ x , y ]
ConstituentsQuery(x, y) ==
    <<Word("pgsl:constituents"), Word("["), x, Word(","), y, Word("]")>>

\* one query of each shape per id of Ids, and one that is no pattern
Queries(Ids) ==
    {ConstituentsQuery(Ref(l), Ref(r)) : l, r \in Ids}
        \cup {ConstituentsQuery(Var("?left"), Ref(x)) : x \in Ids}
        \cup {ConstituentsQuery(Ref(x), Var("?right")) : x \in Ids}
        \cup {<<Word("SELECT")>>}

\* mutant: a query ends with a notification
reads_andNotifies(e, result) ==
    [e |-> notify(e), ret |-> result.ret, threw |-> result.threw]

\* a query method returns: its body assigns no field of the engine and
\* calls no listener, so the engine is as the call found it
reads(e, result) == [e |-> e, ret |-> result.ret, threw |-> result.threw]

\* the calls of the query methods with ids from Ids
ReaderCalls(Ids) ==
    {[method |-> m] : m \in {"getAllNodes", "getFederationConfig"}}
        \cup {[method |-> m, uri |-> id] :
                 m \in {"getNode", "getFragmentUri", "getDebugNeighbors",
                        "resolveContentString"},
                 id \in Ids}
        \cup {[method |-> "findParentNode", leftUri |-> l, rightUri |-> r] : l, r \in Ids}
        \cup {[method |-> "findNeighbors", targetUri |-> id, direction |-> d] :
                 id \in Ids, d \in {"left", "right"}}
        \cup {[method |-> "executeSPARQL", query |-> q] : q \in Queries(Ids)}

\* the call c made on engine e
read(e, c) ==
    CASE c.method = "getAllNodes" -> reads(e, Value(getAllNodes(e)))
      [] c.method = "getFederationConfig" -> reads(e, Value(getFederationConfig(e)))
      [] c.method = "getNode" -> reads(e, Value(getNode(e, c.uri)))
      [] c.method = "getFragmentUri" -> reads(e, Value(getFragmentUri(e, <<c.uri>>)))
      [] c.method = "getDebugNeighbors" -> reads(e, getDebugNeighbors(e, c.uri))
      [] c.method = "resolveContentString" -> reads(e, resolveContentString(e, c.uri))
      [] c.method = "findParentNode" -> reads(e, findParentNode(e, c.leftUri, c.rightUri))
      [] c.method = "findNeighbors" -> reads(e, findNeighbors(e, c.targetUri, c.direction))
      [] c.method = "executeSPARQL" -> reads(e, executeSPARQL(e, c.query))

----------------------------------------------------------------------------
(* Inputs *)

\* raw values: a plain string, a number and the string that prints the same,
\* and a string that names a member of Object.prototype
RawValues == {Str(<<"a">>), Num(1), Str(<<"1">>), Str(<<"constructor">>)}

\* an identifier-shaped string that names no local node
ForeignRefs == {Str(<<"did:", "ext:x">>)}

\* the ids of the nodes now in the repository
NodeIds == {state.nodeRepository[i].id : i \in 1..Len(state.nodeRepository)}

\* callbacks a client may subscribe
Callbacks == {[t |-> "function", name |-> "onChange1"], [t |-> "function", name |-> "onChange2"]}

\* callbacks whose body calls a mutating method of the engine: one resets,
\* one deletes the node listed last, one asks for the atom of "b", one
\* ingests ["b", "a"]
ReentrantCallbacks ==
    {[t |-> "function", name |-> "resets",
      does |-> [op |-> "reset", items |-> <<>>]],
     [t |-> "function", name |-> "deletes",
      does |-> [op |-> "deleteNode", items |-> <<>>]],
     [t |-> "function", name |-> "asksAtom",
      does |-> [op |-> "getCanonicalAtom", items |-> <<Str(<<"b">>)>>]],
     [t |-> "function", name |-> "ingests",
      does |-> [op |-> "ingestSequence", items |-> <<Str(<<"b">>), Str(<<"a">>)>>]]}

\* authorities a client may configure: with one and with two trailing "/"
Authorities ==
    {Str(<<"https", "://", "example.org", "/">>),
     Str(<<"https", "://", "example.org", "/", "/">>)}

\* agents a client may configure
Agents == {Str(<<"did:", "web:example.org:alice">>)}

RECURSIVE SeqsUpTo(_, _)
SeqsUpTo(S, n) ==
    IF n = 0 THEN {<<>>}
    ELSE LET shorter == SeqsUpTo(S, n - 1)
         IN shorter \cup {Append(q, x) : q \in {r \in shorter : Len(r) = n - 1}, x \in S}

----------------------------------------------------------------------------
(* Actions: one per public operation *)

\* the engine takes the state a call left; a call that threw left it as it was
Returned(r) ==
    /\ r.e.uuid <= MaxUuid
    /\ state' = r.e.state
    /\ uuid' = r.e.uuid
    /\ listeners' = r.e.listeners
    /\ authority' = r.e.authority
    /\ agent' = r.e.agent

CanonicalAtom(Values) ==
    \E value \in Values :
        \E r \in {getCanonicalAtom(Engine, value)} :
            /\ Returned(r)
            /\ UNCHANGED handles

IngestSequence(Items) ==
    \E items \in SeqsUpTo(Items, MaxLen) :
        \E r \in {ingestSequence(Engine, items)} :
            /\ Returned(r)
            /\ UNCHANGED handles

DeleteNode(Uris) ==
    \E uri \in Uris :
        \E r \in {deleteNode(Engine, uri)} :
            /\ Returned(r)
            /\ UNCHANGED handles

Reset ==
    \E r \in {reset(Engine)} :
        /\ Returned(r)
        /\ UNCHANGED handles

Subscribe ==
    \E listener \in Callbacks :
        /\ Len(listeners) < MaxListeners
        /\ listeners' = subscribe(listeners, listener)
        /\ handles' = handles \cup {listener}
        /\ UNCHANGED <<state, authority, agent, uuid>>

SubscribeReentrant ==
    \E listener \in ReentrantCallbacks :
        /\ Len(listeners) < MaxListeners
        /\ listeners' = subscribe(listeners, listener)
        /\ handles' = handles \cup {listener}
        /\ UNCHANGED <<state, authority, agent, uuid>>

Unsubscribe ==
    \E listener \in handles :
        /\ listeners' = unsubscribe(listeners, listener)
        /\ UNCHANGED <<state, authority, agent, uuid, handles>>

SetFederationConfig ==
    \E newAuthority \in Authorities, newAgent \in Agents :
        \E r \in {setFederationConfig(Engine, newAuthority, newAgent)} :
            /\ Returned(r)
            /\ UNCHANGED handles

\* a call of one of the query methods
Read(Ids) ==
    \E c \in ReaderCalls(Ids) :
        \E r \in {read(Engine, c)} :
            /\ Returned(r)
            /\ UNCHANGED handles

Init ==
    /\ state = EmptyState
    /\ listeners = <<>>
    /\ authority = DefaultAuthority
    /\ agent = DefaultAgent
    /\ uuid = 0
    /\ handles = {}

\* the engine's mutating operations, on an engine nobody has subscribed to
Next ==
    \/ CanonicalAtom(RawValues)
    \/ IngestSequence(RawValues \cup ForeignRefs)
    \/ DeleteNode(NodeIds \cup ForeignRefs \cup {Str(<<"constructor">>)})
    \/ Reset

Spec == Init /\ [][Next]_vars

\* values ingested while clients subscribe and unsubscribe
NotifyValues == {Str(<<"a">>), Num(1)}

\* the engine under a client that subscribes and unsubscribes callbacks
NextNotify ==
    \/ CanonicalAtom(NotifyValues)
    \/ IngestSequence(NotifyValues)
    \/ DeleteNode(NodeIds)
    \/ Reset
    \/ Subscribe
    \/ Unsubscribe

SpecNotify == Init /\ [][NextNotify]_vars

\* values ingested next to references to nodes of the repository
RefValues == {Str(<<"a">>), Str(<<"b">>)}

\* the engine under a client that also ingests the ids of existing nodes
NextRefs ==
    \/ IngestSequence(RefValues \cup NodeIds \cup ForeignRefs)
    \/ DeleteNode(NodeIds)
    \/ Reset

SpecRefs == Init /\ [][NextRefs]_vars

\* the value ingested while clients configure, subscribe and query
ConfigValues == {Str(<<"a">>)}

\* every public operation of the engine
NextConfig ==
    \/ SetFederationConfig
    \/ CanonicalAtom(ConfigValues)
    \/ IngestSequence(ConfigValues)
    \/ DeleteNode(NodeIds)
    \/ Reset
    \/ Subscribe
    \/ Read(NodeIds)

SpecConfig == Init /\ [][NextConfig]_vars

\* a plain string and strings that name members of Object.prototype
BuiltinValues ==
    {Str(<<"a">>), Str(<<"constructor">>), Str(<<"toString">>), Str(<<"__proto__">>)}

\* the engine under a client whose values include names of built-in members
NextBuiltin ==
    \/ CanonicalAtom(BuiltinValues)
    \/ IngestSequence(BuiltinValues)
    \/ DeleteNode(NodeIds)
    \/ Reset

SpecBuiltin == Init /\ [][NextBuiltin]_vars

\* values ingested while callbacks that call the engine are subscribed
ReentrantValues == {Str(<<"a">>), Str(<<"b">>)}

\* the engine under a client whose callbacks call its mutating methods
NextReentrant ==
    \/ CanonicalAtom(ReentrantValues)
    \/ IngestSequence(ReentrantValues)
    \/ DeleteNode(NodeIds)
    \/ Reset
    \/ SubscribeReentrant

SpecReentrant == Init /\ [][NextReentrant]_vars

----------------------------------------------------------------------------
(* Vocabulary of the properties *)

NodesOf(st) == {st.nodeRepository[i] : i \in 1..Len(st.nodeRepository)}
AtomsOf(st) == {n \in NodesOf(st) : typeIncludes(n, ATOM)}
FragmentsOf(st) == {n \in NodesOf(st) : typeIncludes(n, FRAGMENT)}
WrappersOf(st) == {f \in FragmentsOf(st) : f.level = 1 /\ f.constituents = <<>>}
CompositesOf(st) == {f \in FragmentsOf(st) : f.level >= 2 /\ f.constituents # <<>>}

PairwiseDistinct(q) == \A i, j \in 1..Len(q) : i # j => q[i] # q[j]

NonEmptySeqs(S) == SeqsUpTo(S, MaxLen) \ {<<>>}

\* the values wrapped by the atoms a content list names, "?" where it names no atom
ValuesOf(st, content) ==
    [k \in 1..Len(content) |->
        LET named == {a \in AtomsOf(st) : a.id = content[k]}
        IN IF named = {} THEN Str(<<"?">>) ELSE (CHOOSE a \in named : TRUE).value]

\* the call ingestSequence(items) took the engine from the current state to the next
IngestStep(items) ==
    \E r \in {ingestSequence(Engine, items)} :
        ~r.threw /\ state' = r.e.state /\ uuid' = r.e.uuid

----------------------------------------------------------------------------
(* C1: on an engine with no nodes, ingestSequence of N pairwise-distinct    *)
(* raw values creates exactly N atoms, N singleton wrappers and N(N-1)/2    *)
(* composite fragments, exactly one fragment per contiguous sub-sequence    *)
(* of the input.                                                            *)

FullLattice(st, items) ==
    LET N == Len(items) IN
    /\ Cardinality(AtomsOf(st)) = N
    /\ Cardinality(WrappersOf(st)) = N
    /\ 2 * Cardinality(CompositesOf(st)) = N * (N - 1)
    /\ 2 * Cardinality(FragmentsOf(st)) = N * (N + 1)
    /\ \A i \in 1..N : \A j \in i..N :
          Cardinality({f \in FragmentsOf(st) :
                          ValuesOf(st, f.content) = SubSeq(items, i, j)}) = 1

C1_IngestOfDistinctValuesBuildsFullLattice ==
    [][\A items \in NonEmptySeqs(RawValues) :
          (state = EmptyState /\ PairwiseDistinct(items) /\ IngestStep(items))
              => FullLattice(state', items)]_vars

----------------------------------------------------------------------------
(* C2: ingestSequence(items) called twice in a row with the same non-empty  *)
(* items returns the same top-level id both times, and the second call      *)
(* leaves nodeRepository, atomRegistry and fragmentRegistry exactly as the  *)
(* first call left them.                                                    *)

\* the engine as a call left it, ready for the next call
After(r) == [r.e EXCEPT !.notified = <<>>]

C2_IngestTwiceIsIdempotent ==
    \A items \in NonEmptySeqs(RawValues \cup ForeignRefs) :
        LET first == ingestSequence(Engine, items)
            second == ingestSequence(After(first), items)
        IN /\ ~first.threw /\ ~second.threw
           /\ second.ret = first.ret
           /\ second.e.state = first.e.state
           /\ second.e.uuid = first.e.uuid

\* the first call created a composite fragment and the second call finds it
C2_SecondIngestActs ==
    \E items \in NonEmptySeqs(RawValues \cup ForeignRefs) :
        LET again == ingestSequence(Engine, items)
        IN /\ Len(items) = 2
           /\ again.e.state = state
           /\ \E f \in CompositesOf(state) : f.id = again.ret

----------------------------------------------------------------------------
(* C3: invariant A1 and the canonical atom law.  In every reachable state  *)
(* the repository holds at most one atom per serialized value, and two      *)
(* calls canonicalAtom(v) with no deleteNode or reset between them return   *)
(* the identical id.  The law is stated by its induction: a call returns    *)
(* what the registry answers for v once it has returned, a second call      *)
(* right after it (or after a canonicalAtom of any value) returns the same, *)
(* and no ingestSequence changes what the registry answers for v.           *)

A1 ==
    \A a, b \in AtomsOf(state) : a # b => String(a.value) # String(b.value)

\* what canonicalAtom(v) finds registered in engine e
Registered(e, v) == Get(e.state.atomRegistry, String(v))

C3_OneAtomPerValue ==
    /\ A1
    /\ \A v \in RawValues :
          LET first == getCanonicalAtom(Engine, v) IN
          /\ first.ret = Registered(first.e, v)
          /\ getCanonicalAtom(After(first), v).ret = first.ret
          /\ \A w \in RawValues :
                getCanonicalAtom(After(getCanonicalAtom(After(first), w)), v).ret
                    = first.ret
    /\ \A items \in NonEmptySeqs(RawValues \cup ForeignRefs) :
          LET between == ingestSequence(Engine, items) IN
          \A v \in RawValues :
              Truthy(Registered(Engine, v))
                  => /\ Registered(between.e, v) = Registered(Engine, v)
                     /\ getCanonicalAtom(After(between), v).ret = Registered(Engine, v)

\* the repository holds the atom of the number 1, minted after an earlier
\* node, and canonicalAtom of the string "1" answers that atom
C3_SameSerializationSameAtom ==
    \E a \in AtomsOf(state) :
        /\ a.value = Num(1)
        /\ a.id # mintURI([uuid |-> 0, authority |-> DefaultAuthority], "atoms")
        /\ getCanonicalAtom(Engine, Str(<<"1">>)).ret = a.id

----------------------------------------------------------------------------
(* C4: invariant F1.  In every reachable state no two fragments of the      *)
(* repository have the same ordered content list, and content lists that    *)
(* differ only in order are held by distinct fragments with distinct ids:   *)
(* getFragmentUri of a reordering of a fragment's content never answers     *)
(* that fragment, and what it answers holds the reordered list.             *)

\* the lists that hold the elements of q in some order
Reorderings(q) ==
    LET n == Len(q)
        bijections == {p \in [1..n -> 1..n] : \A i, j \in 1..n : i # j => p[i] # p[j]}
    IN {[i \in 1..n |-> q[p[i]]] : p \in bijections}

----------------------------------------------------------------------------
(* C5: invariant R1.  After every completed public operation every atom of  *)
(* the repository is the value of exactly one atomRegistry entry, every     *)
(* fragment is the value of exactly one fragmentRegistry entry, keyed by    *)
(* its own content, and every registry entry's value is the id of a node    *)
(* in the repository.                                                       *)

KeysOf(registry, uri) == {k \in DOMAIN registry : registry[k] = uri}

C5_RegistriesMirrorRepository ==
    /\ \A a \in AtomsOf(state) :
          KeysOf(state.atomRegistry, a.id) = {String(a.value)}
    /\ \A f \in FragmentsOf(state) :
          KeysOf(state.fragmentRegistry, f.id) = {JSONstringify(f.content)}
    /\ \A k \in DOMAIN state.atomRegistry :
          \E a \in AtomsOf(state) : a.id = state.atomRegistry[k]
    /\ \A k \in DOMAIN state.fragmentRegistry :
          \E f \in FragmentsOf(state) : f.id = state.fragmentRegistry[k]

\* a node was deleted while another node still names it
C5_DeletedWithDanglingReference ==
    /\ AtomsOf(state) = {}
    /\ \E f \in FragmentsOf(state) :
          /\ IsString(f.content[1])
          /\ includes(f.content[1], "atoms")
          /\ ~Truthy(getNode(Engine, f.content[1]))

----------------------------------------------------------------------------
(* C6: after deleteNode(id), getNode(id) is absent and no atomRegistry or   *)
(* fragmentRegistry entry maps to id; every other node record, fragments    *)
(* that list id in content or constituents included, and every registry     *)
(* entry whose value is not id are left unchanged: nothing cascades.        *)

\* the strings a client may pass where an id is expected
IdArguments == NodeIds \cup ForeignRefs \cup {Str(<<"constructor">>)}

\* registry after agrees with registry before on every entry that does not map to id
FrameOfRegistry(before, after, id) ==
    /\ DOMAIN after \subseteq DOMAIN before
    /\ \A k \in DOMAIN before :
          before[k] # id => (k \in DOMAIN after /\ after[k] = before[k])

C6_DeleteRemovesThatNodeOnly ==
    \A id \in IdArguments :
        \E r \in {deleteNode(Engine, id)} :
            /\ getNode(r.e, id) = Undefined
            /\ KeysOf(r.e.state.atomRegistry, id) = {}
            /\ KeysOf(r.e.state.fragmentRegistry, id) = {}
            /\ r.e.state.nodeRepository
                   = SelectSeq(state.nodeRepository, LAMBDA n : n.id # id)
            /\ FrameOfRegistry(state.atomRegistry, r.e.state.atomRegistry, id)
            /\ FrameOfRegistry(state.fragmentRegistry, r.e.state.fragmentRegistry, id)

----------------------------------------------------------------------------
(* C8: the only failing call is ingestSequence with zero items.  In every   *)
(* reachable state, states with dangling references included,               *)
(* ingestSequence of any non-empty item list, deleteNode, getNode,          *)
(* getFragmentUri, findParentNode, findNeighbors, getDebugNeighbors and     *)
(* resolveContentString complete without raising for every argument, and    *)
(* an id that names no node yields an absent or empty result.               *)

\* ids named by a content or constituents list of the repository
ReferencedIds ==
    UNION {{f.content[i] : i \in 1..Len(f.content)}
              \cup {f.constituents[i] : i \in 1..Len(f.constituents)} :
           f \in FragmentsOf(state)}

\* ids that name no node and that no node refers to
UnknownIds == (IdArguments \ NodeIds) \ ReferencedIds

C8_OnlyEmptyIngestFails ==
    /\ \A items \in NonEmptySeqs(RawValues \cup IdArguments) :
          ~ingestSequence(Engine, items).threw
    /\ \A id \in IdArguments \cup ReferencedIds :
          /\ ~deleteNode(Engine, id).threw
          /\ ~findNeighbors(Engine, id, "left").threw
          /\ ~findNeighbors(Engine, id, "right").threw
          /\ ~getDebugNeighbors(Engine, id).threw
          /\ ~resolveContentString(Engine, id).threw
          /\ \A other \in IdArguments \cup ReferencedIds :
                ~findParentNode(Engine, id, other).threw
    /\ \A id \in UnknownIds :
          /\ getNode(Engine, id) = Undefined
          /\ getFragmentUri(Engine, <<id>>) = Undefined
          /\ findNeighbors(Engine, id, "left").ret = <<>>
          /\ findNeighbors(Engine, id, "right").ret = <<>>
          /\ getDebugNeighbors(Engine, id).ret = <<>>
          /\ \A other \in IdArguments :
                findParentNode(Engine, id, other).ret = Undefined

----------------------------------------------------------------------------
(* C7: ingestSequence([]) fails with an error, and on that failure the      *)
(* repository, both registries and the listener list are unchanged and no   *)
(* listener is invoked.                                                     *)

C7_EmptySequenceFailsAndChangesNothing ==
    \E r \in {ingestSequence(Engine, <<>>)} :
        /\ r.threw
        /\ r.e.state = state
        /\ r.e.listeners = listeners
        /\ r.e.notified = <<>>

\* the call fails on an engine that holds nodes and has a listener to invoke
C7_FailsWithNodesAndListeners ==
    /\ ingestSequence(Engine, <<>>).threw
    /\ NodesOf(state) # {}
    /\ Len(listeners) > 0

----------------------------------------------------------------------------
(* C9: each successful ingestSequence call invokes every subscribed         *)
(* listener exactly once, one notification per call, whatever the number    *)
(* of atoms and fragments the call creates.                                 *)

\* the listener calls of one notification: each listener in turn
OneNotification(ls, called) ==
    /\ Len(called) = Len(ls)
    /\ \A i \in 1..Len(ls) : called[i].listener = ls[i]

C9_OneNotificationPerIngest ==
    \A items \in NonEmptySeqs(NotifyValues) :
        \E r \in {ingestSequence(Engine, items)} :
            ~r.threw => OneNotification(listeners, r.e.notified)

----------------------------------------------------------------------------
(* C10: a listener registered with subscribe is invoked after every         *)
(* mutating operation (ingestSequence, deleteNode, reset, and canonicalAtom *)
(* when it creates an atom) that happens while it is registered; after the  *)
(* function returned by subscribe has been called that listener is not      *)
(* invoked by any later operation, while other listeners stay registered.   *)

Range(q) == {q[i] : i \in 1..Len(q)}

\* the registrations of q other than those of l, in order
Others(q, l) == SelectSeq(q, LAMBDA x : x # l)

\* what the mutating operations return when called on engine e
Mutations(e) ==
    {ingestSequence(e, items) : items \in NonEmptySeqs(NotifyValues)}
        \cup {deleteNode(e, id) : id \in NodeIds \cup ForeignRefs}
        \cup {reset(e)}
        \cup {r \in {getCanonicalAtom(e, v) : v \in NotifyValues} :
                 AtomsOf(r.e.state) # AtomsOf(e.state)}

\* the calls made to listener l during the operation that returned r
CallsTo(r, l) == SelectSeq(r.e.notified, LAMBDA c : c.listener = l)

\* l was called when the operation was over: its last call saw the final state
InvokedAfter(r, l) ==
    /\ CallsTo(r, l) # <<>>
    /\ CallsTo(r, l)[Len(CallsTo(r, l))].saw = r.e.state

C10_SubscriptionProtocol ==
    /\ \A r \in Mutations(Engine) :
          /\ r.e.listeners = listeners
          /\ \A l \in Callbacks :
                IF l \in Range(listeners) THEN InvokedAfter(r, l)
                ELSE CallsTo(r, l) = <<>>
    /\ \A l \in Callbacks :
          \A r \in Mutations([Engine EXCEPT !.listeners = subscribe(listeners, l)]) :
              InvokedAfter(r, l)
    /\ \A l \in handles :
          LET rest == unsubscribe(listeners, l) IN
          /\ l \notin Range(rest)
          /\ Others(rest, l) = Others(listeners, l)
          /\ \A r \in Mutations([Engine EXCEPT !.listeners = rest]) :
                /\ CallsTo(r, l) = <<>>
                /\ \A m \in Range(listeners) \ {l} : InvokedAfter(r, m)

\* one callback has been unsubscribed, another is still registered, and the
\* repository holds nodes
C10_OneLeftOneStays ==
    /\ \E l \in handles : l \notin Range(listeners)
    /\ listeners # <<>>
    /\ NodesOf(state) # {}

----------------------------------------------------------------------------
(* Vocabulary of the topology properties, read off the repository alone *)

Present(id) == \E n \in NodesOf(state) : n.id = id
NodeOf(id) == CHOOSE n \in NodesOf(state) : n.id = id

\* the wrapped id when id names a singleton wrapper, else id
DemotedForm(id) ==
    IF \E w \in WrappersOf(state) : w.id = id /\ Len(w.content) = 1
    THEN NodeOf(id).content[1]
    ELSE id

\* the singleton wrapper of an atom id when the repository holds one, else id
PromotedForm(id) ==
    LET wrappers == {w \in WrappersOf(state) : w.content = <<id>>}
    IN IF (\E a \in AtomsOf(state) : a.id = id) /\ wrappers # {}
       THEN (CHOOSE w \in wrappers : TRUE).id
       ELSE id

\* the result of a topology query lists entry
Lists(result, entry) ==
    ~result.threw /\ \E i \in 1..Len(result.ret) : result.ret[i] = entry

----------------------------------------------------------------------------
(* C11: neighbor/parent consistency.  In every reachable state and for all  *)
(* ids L, R: if findParentNode(L, R) returns P, then findNeighbors(L,       *)
(* 'right') contains an entry with pair P whose neighbor is the demoted     *)
(* form of R, and findNeighbors(R, 'left') contains an entry with pair P    *)
(* whose neighbor is the demoted form of L.                                 *)

C11_ParentImpliesNeighbors ==
    \A L, R \in IdArguments \cup ReferencedIds :
        \E p \in {findParentNode(Engine, L, R)} :
            (~p.threw /\ p.ret # Undefined)
                => /\ Lists(findNeighbors(Engine, L, "right"),
                            [neighbor |-> DemotedForm(R), pair |-> p.ret])
                   /\ Lists(findNeighbors(Engine, R, "left"),
                            [neighbor |-> DemotedForm(L), pair |-> p.ret])

\* two atoms have a parent: the query promoted both and the answers demote both
C11_AtomsHaveParent ==
    \E a, b \in AtomsOf(state) :
        /\ a # b
        /\ findParentNode(Engine, a.id, b.id).ret # Undefined

----------------------------------------------------------------------------
(* C12: height law.  In every reachable state every atom has height 0,      *)
(* every wrapper fragment whose single content id is present in the         *)
(* repository has height = height(child) + 1, and every composite fragment  *)
(* whose two constituents are present has height = max(height(left),        *)
(* height(right)) + 1.                                                      *)

C12_HeightLaw ==
    /\ \A a \in AtomsOf(state) : a.height = 0
    /\ \A w \in WrappersOf(state) :
          Present(w.content[1]) => w.height = NodeOf(w.content[1]).height + 1
    /\ \A f \in CompositesOf(state) :
          (Present(f.constituents[1]) /\ Present(f.constituents[2]))
              => LET left == NodeOf(f.constituents[1]).height
                     right == NodeOf(f.constituents[2]).height
                 IN f.height = (IF left >= right THEN left ELSE right) + 1

\* a composite whose constituents differ in height, one of them the wrapper
\* of a fragment
C12_UnevenComposite ==
    \E f \in CompositesOf(state) :
        /\ Present(f.constituents[1]) /\ Present(f.constituents[2])
        /\ NodeOf(f.constituents[1]).height # NodeOf(f.constituents[2]).height
        /\ \E w \in WrappersOf(state) :
              /\ w.id \in Range(f.constituents)
              /\ \E g \in FragmentsOf(state) : g.id = w.content[1]

----------------------------------------------------------------------------
(* C13: incremental reuse.  When a sequence s of raw values is ingested     *)
(* after another sequence, with no deletion in between, every atom, wrapper *)
(* and composite fragment that already exists keeps its id and record, only *)
(* fragments for sub-sequences not yet present are created, and the         *)
(* returned top fragment has content = the atom ids of s in order,          *)
(* constituents = [fragment of s without its last element, fragment of s    *)
(* without its first element] and height = length(s).                       *)

\* content names, in order, the atoms of the values s
NamesAtomsOf(st, content, s) ==
    /\ Len(content) = Len(s)
    /\ \A k \in 1..Len(s) :
          \E a \in AtomsOf(st) :
              a.id = content[k] /\ String(a.value) = String(s[k])

\* top is the fragment of s in st, built on the fragments of its two halves
TopOf(st, top, s) ==
    LET N == Len(s) IN
    /\ NamesAtomsOf(st, top.content, s)
    /\ top.height = N
    /\ N >= 2 =>
          \E l, r \in FragmentsOf(st) :
              /\ l.content = SubSeq(top.content, 1, N - 1)
              /\ r.content = SubSeq(top.content, 2, N)
              /\ top.constituents = <<l.id, r.id>>

C13_IngestReusesAndExtends ==
    \A t, s \in NonEmptySeqs(RawValues) :
        \E first \in {ingestSequence(Engine, t)} :
            \E second \in {ingestSequence(After(first), s)} :
                LET before == first.e.state
                    after == second.e.state
                    kept == Len(before.nodeRepository)
                IN /\ SubSeq(after.nodeRepository, 1, kept) = before.nodeRepository
                   /\ \A f \in FragmentsOf(after) \ FragmentsOf(before) :
                         \A g \in FragmentsOf(before) : g.content # f.content
                   /\ \E top \in FragmentsOf(after) :
                         top.id = second.ret /\ TopOf(after, top, s)

----------------------------------------------------------------------------
(* C14: node immutability.  Once a node is in the repository, no operation  *)
(* other than deleteNode of that id or reset changes or removes it: a step  *)
(* that does not keep a node's record as it was either removed exactly that *)
(* node or emptied the repository.                                          *)

C14_NodesAreImmutable ==
    [][\A n \in NodesOf(state) :
          \/ n \in NodesOf(state')
          \/ NodesOf(state') = NodesOf(state) \ {n}
          \/ state' = EmptyState]_vars

\* the first node ever minted is still held, after another node was deleted
\* and while others are held
C14_FirstNodeOutlivesOthers ==
    /\ Present(mintURI([uuid |-> 0, authority |-> DefaultAuthority], "atoms"))
    /\ Len(state.nodeRepository) >= 2
    /\ Len(state.nodeRepository) < uuid

----------------------------------------------------------------------------
(* C15: canonicalAtom hit and miss.  When the serialized value is already   *)
(* in the atom registry, canonicalAtom returns the registered id, changes   *)
(* nothing in the repository or registries and invokes no listener;         *)
(* otherwise it adds exactly one atom to the repository and one entry to    *)
(* the atom registry, adds no fragment, and invokes every listener exactly  *)
(* once.                                                                    *)

\* r is a hit: the registered id, nothing changed, nobody called
AtomHit(r, v) ==
    /\ r.ret = state.atomRegistry[String(v)]
    /\ r.e.state = state
    /\ r.e.notified = <<>>

\* r is a miss: one atom of v and its registry entry added, nothing else
AtomMiss(r, v) ==
    LET before == state.nodeRepository
        after == r.e.state.nodeRepository
    IN /\ Len(after) = Len(before) + 1
       /\ SubSeq(after, 1, Len(before)) = before
       /\ typeIncludes(after[Len(after)], ATOM)
       /\ after[Len(after)].value = v
       /\ after[Len(after)].id = r.ret
       /\ DOMAIN r.e.state.atomRegistry = DOMAIN state.atomRegistry \cup {String(v)}
       /\ \A k \in DOMAIN state.atomRegistry :
             r.e.state.atomRegistry[k] = state.atomRegistry[k]
       /\ r.e.state.atomRegistry[String(v)] = r.ret
       /\ r.e.state.fragmentRegistry = state.fragmentRegistry
       /\ OneNotification(listeners, r.e.notified)

C15_CanonicalAtomHitOrMiss ==
    \A v \in RawValues :
        \E r \in {getCanonicalAtom(Engine, v)} :
            IF String(v) \in DOMAIN state.atomRegistry
            THEN AtomHit(r, v)
            ELSE AtomMiss(r, v)

----------------------------------------------------------------------------
(* C16: deleteNode of an id that is not in the repository leaves the        *)
(* repository and both registries unchanged, raises no error, and still     *)
(* invokes every listener exactly once; consequently deleteNode(id) applied *)
(* twice leaves the same state as applied once.                             *)

C16_DeleteAbsentChangesNothing ==
    \A id \in IdArguments \cup ReferencedIds :
        \E once \in {deleteNode(Engine, id)} :
            \E twice \in {deleteNode(After(once), id)} :
                /\ ~once.threw /\ ~twice.threw
                /\ twice.e.state = once.e.state
                /\ OneNotification(listeners, twice.e.notified)
                /\ ~Present(id)
                      => /\ once.e.state = state
                         /\ OneNotification(listeners, once.e.notified)

\* a listener is registered and a fragment still names a deleted node
C16_DanglingIdAndListener ==
    /\ listeners # <<>>
    /\ \E id \in ReferencedIds : ~Present(id)

----------------------------------------------------------------------------
(* C17: readers are pure.  getAllNodes, getNode, getFragmentUri,            *)
(* findParentNode, findNeighbors, getDebugNeighbors, resolveContentString   *)
(* and executeSPARQL leave the repository, both registries, the listener    *)
(* list and the federation config unchanged and invoke no listener; only    *)
(* canonicalAtom, ingestSequence, deleteNode and reset change the           *)
(* repository or registries.                                                *)

----------------------------------------------------------------------------
(* C18: setFederationConfig(authority, agent) changes no node and no        *)
(* registry entry and invokes no listener; every node minted afterwards has *)
(* an id beginning with the authority (one trailing '/' removed) followed   *)
(* by '/atoms/' or '/fragments/' and is attributed to agent, while          *)
(* canonicalization of values and contents that already exist keeps         *)
(* returning the ids minted under the earlier config.                       *)

\* the text with one trailing "/" removed
OneSlashLess(chunks) ==
    IF chunks # <<>> /\ chunks[Len(chunks)] = "/"
    THEN [i \in 1..(Len(chunks) - 1) |-> chunks[i]]
    ELSE chunks

\* node n was minted under the authority prefix and the agent who
MintedUnder(n, prefix, who) ==
    LET L == Len(prefix) IN
    /\ Len(n.id.s) = L + 4
    /\ SubSeq(n.id.s, 1, L) = prefix
    /\ n.id.s[L + 1] = "/"
    /\ n.id.s[L + 2] = (IF typeIncludes(n, ATOM) THEN "atoms" ELSE "fragments")
    /\ n.id.s[L + 3] = "/"
    /\ n.attributedTo = who

C18_ConfigGovernsLaterMintsOnly ==
    \A newAuthority \in Authorities, newAgent \in Agents :
        \E c \in {setFederationConfig(Engine, newAuthority, newAgent)} :
            /\ c.e.state = state
            /\ c.e.listeners = listeners
            /\ c.e.notified = <<>>
            /\ \A r \in Mutations(After(c)) :
                  \A n \in NodesOf(r.e.state) \ NodesOf(state) :
                      MintedUnder(n, OneSlashLess(newAuthority.s), newAgent)
            /\ \A a \in AtomsOf(state) :
                  getCanonicalAtom(After(c), a.value).ret = a.id
            /\ \A f \in FragmentsOf(state) :
                  /\ getFragmentUri(c.e, f.content) = f.id
                  /\ getCanonicalFragment(After(c), f.content, f.constituents).ret = f.id

\* nodes minted under two configurations are held and a listener is registered
C18_TwoConfigsInOneRepository ==
    /\ listeners # <<>>
    /\ authority # DefaultAuthority
    /\ \E n, m \in NodesOf(state) :
          /\ n.attributedTo = DefaultAgent
          /\ m.attributedTo = agent
          /\ agent # DefaultAgent

----------------------------------------------------------------------------
(* C19: demotion in findNeighbors.  In every reachable state no neighbor id *)
(* returned by findNeighbors is the id of a singleton wrapper fragment      *)
(* present in the repository; whenever the matched constituent is a         *)
(* singleton wrapper, the wrapped id is returned in its place.              *)

IsWrapperId(id) == \E w \in WrappersOf(state) : w.id = id

C19_NeighborsAreNeverWrappers ==
    \A target \in IdArguments \cup ReferencedIds :
        \A direction \in {"left", "right"} :
            \E found \in {findNeighbors(Engine, target, direction)} :
                ~found.threw
                    => \A i \in 1..Len(found.ret) :
                          LET pair == NodeOf(found.ret[i].pair)
                              matched == IF direction = "left"
                                         THEN pair.constituents[1]
                                         ELSE pair.constituents[2]
                          IN /\ ~IsWrapperId(found.ret[i].neighbor)
                             /\ IsWrapperId(matched)
                                   => found.ret[i].neighbor = NodeOf(matched).content[1]

----------------------------------------------------------------------------
(* C20: findNeighbors(target, direction) returns, in repository insertion   *)
(* order and with at most one entry per fragment, exactly the pairs         *)
(* (demote(c[0]), f) for every fragment f whose constituents c satisfy      *)
(* c[1] = promote(target) when direction is left, and (demote(c[1]), f)     *)
(* for every f with c[0] = promote(target) when direction is right, where   *)
(* promote replaces an atom id by its singleton wrapper id when that        *)
(* wrapper exists; findParentNode(L, R) returns a fragment whose            *)
(* constituents equal [promote(L), promote(R)] when one exists and absent   *)
(* otherwise.                                                               *)

\* the entries findNeighbors is to return, read off the repository in order
NeighborsOf(target, direction) ==
    LET near == IF direction = "left" THEN 2 ELSE 1
        far == IF direction = "left" THEN 1 ELSE 2
        matches == SelectSeq(state.nodeRepository,
                             LAMBDA n : /\ typeIncludes(n, FRAGMENT)
                                        /\ n.constituents # <<>>
                                        /\ n.constituents[near] = PromotedForm(target))
    IN [i \in 1..Len(matches) |->
           [neighbor |-> DemotedForm(matches[i].constituents[far]),
            pair |-> matches[i].id]]

\* the fragments built on the promoted forms of L and R
ParentsOf(L, R) ==
    {f \in CompositesOf(state) :
        f.constituents = <<PromotedForm(L), PromotedForm(R)>>}

C20_QueriesAnswerFromConstituents ==
    \A L \in IdArguments \cup ReferencedIds :
        /\ \A direction \in {"left", "right"} :
              \E found \in {findNeighbors(Engine, L, direction)} :
                  ~found.threw /\ found.ret = NeighborsOf(L, direction)
        /\ \A R \in IdArguments \cup ReferencedIds :
              \E p \in {findParentNode(Engine, L, R)} :
                  /\ ~p.threw
                  /\ IF ParentsOf(L, R) = {} THEN p.ret = Undefined
                     ELSE \E f \in ParentsOf(L, R) : p.ret = f.id

----------------------------------------------------------------------------
(* C21: resolveContentString on a fragment whose content refers to a        *)
(* deleted or never-existing id raises no error and renders a placeholder   *)
(* at the position of each missing child, the present children being        *)
(* rendered normally.                                                       *)

Placeholder == Str(<<"<?>">>)

\* what the child c of a fragment contributes to the fragment's rendering
RenderedChild(c) ==
    IF Present(c) THEN resolveContentString(Engine, c) ELSE Value(Placeholder)

\* the texts q[1], ..., q[n] joined by single spaces
RECURSIVE Joined(_)
Joined(q) ==
    IF q = <<>> THEN <<>>
    ELSE Head(q).s \o (IF Len(q) > 1 THEN <<" ">> ELSE <<>>) \o Joined(Tail(q))

\* the rendering of fragment f, child by child
RenderedFragment(f) ==
    IF Len(f.content) = 1 THEN RenderedChild(f.content[1]).ret
    ELSE Str(<<"(">> \o Joined([i \in 1..Len(f.content) |-> RenderedChild(f.content[i]).ret])
                 \o <<")">>)

HasMissingChild(f) == \E i \in 1..Len(f.content) : ~Present(f.content[i])

C21_MissingChildrenRenderAsPlaceholders ==
    \A f \in FragmentsOf(state) :
        HasMissingChild(f)
            => \E r \in {resolveContentString(Engine, f.id)} :
                  /\ ~r.threw
                  /\ \A i \in 1..Len(f.content) : ~RenderedChild(f.content[i]).threw
                  /\ r.ret = RenderedFragment(f)

\* a composite with one child deleted and the other, a fragment, present
C21_OneChildGoneOneRendered ==
    \E f \in CompositesOf(state) :
        /\ \E i \in 1..2 : ~Present(f.content[i]) /\ includes(f.content[i], "/")
        /\ \E i \in 1..2 : \E g \in FragmentsOf(state) : g.id = f.content[i]

----------------------------------------------------------------------------
(* C22: for an id that is not in the repository, resolveContentString       *)
(* returns a placeholder that references that id's trailing path segment,   *)
(* so two unknown ids with different trailing segments get different        *)
(* placeholders.                                                            *)

\* the chunks part occur in text as one run
Mentions(text, part) ==
    \E k \in 0..(Len(text) - Len(part)) : SubSeq(text, k + 1, k + Len(part)) = part

\* id-shaped strings that name no node: foreign references and deleted ids
AbsentIds == {id \in ForeignRefs \cup ReferencedIds : IsString(id) /\ ~Present(id)}

C22_PlaceholderNamesTrailingSegment ==
    \A x \in AbsentIds :
        \E r \in {resolveContentString(Engine, x)} :
            /\ ~r.threw
            /\ Mentions(r.ret.s, splitPop(x.s))
            /\ \A y \in AbsentIds :
                  splitPop(y.s) # splitPop(x.s)
                      => resolveContentString(Engine, y).ret # r.ret

----------------------------------------------------------------------------
(* C23: reset empties the repository and both registries and invokes every  *)
(* listener exactly once; the listener list and the federation config are   *)
(* kept, and a sequence ingested before the reset and ingested again after  *)
(* it gets freshly minted ids that differ from every id minted before the   *)
(* reset.                                                                   *)

\* the unique suffixes generateUUID has handed out to engine e
SuffixesOf(e) == {ToString(k) : k \in 1..e.uuid}

\* the unique suffix of a minted id
SuffixOf(id) == id.s[Len(id.s)]

C23_ResetClearsAndRemints ==
    /\ \E r \in {reset(Engine)} :
          /\ ~r.threw
          /\ r.e.state = EmptyState
          /\ OneNotification(listeners, r.e.notified)
          /\ r.e.listeners = listeners
          /\ getFederationConfig(r.e) = getFederationConfig(Engine)
    /\ \A items \in NonEmptySeqs(ConfigValues) :
          \E before \in {ingestSequence(Engine, items)} :
              \E r \in {reset(After(before))} :
                  \E again \in {ingestSequence(After(r), items)} :
                      /\ NodesOf(again.e.state) # {}
                      /\ again.ret # before.ret
                      /\ \A n \in NodesOf(again.e.state) :
                            /\ \A m \in NodesOf(before.e.state) : n.id # m.id
                            /\ SuffixOf(n.id) \notin SuffixesOf(before.e)
                      /\ Cardinality(NodesOf(again.e.state))
                            = again.e.uuid - before.e.uuid

\* a configured engine with a listener holds the atom and the wrapper of a
\* value for the second time
C23_IngestedAgainAfterReset ==
    /\ listeners # <<>>
    /\ authority # DefaultAuthority
    /\ Len(state.nodeRepository) = 2
    /\ uuid = 4
    /\ \E a \in AtomsOf(state) : \E w \in WrappersOf(state) :
          w.content = <<a.id>> /\ SuffixOf(a.id) = "3" /\ SuffixOf(w.id) = "4"

----------------------------------------------------------------------------
(* C24: pattern matcher.  A query of the shape constituents [<L>, <R>]      *)
(* returns the list holding findParentNode(L, R) when it exists and the     *)
(* empty list otherwise; constituents [?left, <R>] returns the neighbors of *)
(* findNeighbors(R, 'left'); constituents [<L>, ?right] returns the         *)
(* neighbors of findNeighbors(L, 'right'); any other query text returns the *)
(* empty list.  The variable may be written ?s for ?left and ?o for ?right, *)
(* and the pattern may stand anywhere in the text.                          *)

\* what may precede the pattern in a query text
Prefixes == {<<>>, <<Word("SELECT"), Var("?x"), Word("WHERE")>>}

\* query texts of none of the three shapes, over the ids Ids
OtherTexts(Ids) ==
    {<<>>, <<Word("SELECT")>>,
     ConstituentsQuery(Var("?left"), Var("?right"))}
        \cup UNION {{ConstituentsQuery(Var("?x"), Ref(x)),
                     ConstituentsQuery(Ref(x), Var("?x")),
                     ConstituentsQuery(Var("?right"), Ref(x)),
                     ConstituentsQuery(Ref(x), Var("?left")),
                     Tail(ConstituentsQuery(Ref(x), Ref(x))),
                     <<Word("pgsl:content")>> \o Tail(ConstituentsQuery(Ref(x), Ref(x))),
                     SubSeq(ConstituentsQuery(Ref(x), Ref(x)), 1, 5),
                     <<Ref(x), Word(","), Ref(x)>>} : x \in Ids}

\* the neighbor ids of the entries findNeighbors returned
NeighborIds(found) == [i \in 1..Len(found.ret) |-> found.ret[i].neighbor]

C24_PatternMatcher ==
    LET Ids == IdArguments \cup ReferencedIds IN
    /\ \A prefix \in Prefixes :
          /\ \A L, R \in Ids :
                \E p \in {findParentNode(Engine, L, R)} :
                    \E r \in {executeSPARQL(Engine,
                                   prefix \o ConstituentsQuery(Ref(L), Ref(R)))} :
                        /\ ~r.threw
                        /\ r.ret = IF ~p.threw /\ p.ret # Undefined THEN <<p.ret>> ELSE <<>>
          /\ \A x \in Ids :
                /\ \A v \in {"?left", "?s"} :
                      \E found \in {findNeighbors(Engine, x, "left")} :
                          \E r \in {executeSPARQL(Engine,
                                         prefix \o ConstituentsQuery(Var(v), Ref(x)))} :
                              ~r.threw /\ ~found.threw /\ r.ret = NeighborIds(found)
                /\ \A v \in {"?right", "?o"} :
                      \E found \in {findNeighbors(Engine, x, "right")} :
                          \E r \in {executeSPARQL(Engine,
                                         prefix \o ConstituentsQuery(Ref(x), Var(v)))} :
                              ~r.threw /\ ~found.threw /\ r.ret = NeighborIds(found)
    /\ \A text \in OtherTexts(Ids) :
          executeSPARQL(Engine, text) = Value(<<>>)

----------------------------------------------------------------------------
(* C25: constituent canonicity.  In every reachable state (including after  *)
(* deleteNode followed by further ingestSequence calls), for every          *)
(* composite fragment f of level L in the repository such that fragments    *)
(* with content f.content[0..L-1) and f.content[1..L) are currently         *)
(* registered, f.constituents equals [getFragmentUri(f.content[0..L-1)),    *)
(* getFragmentUri(f.content[1..L))].                                        *)

C25_ConstituentsAreCanonical ==
    \A f \in CompositesOf(state) :
        LET L == Len(f.content)
            left == getFragmentUri(Engine, slice(f.content, 0, L - 1))
            right == getFragmentUri(Engine, slice(f.content, 1, L))
        IN (Truthy(left) /\ Truthy(right)) => f.constituents = <<left, right>>

----------------------------------------------------------------------------
(* C26: shape invariant.  In every reachable state every fragment has a     *)
(* non-empty content list, level equal to the length of its content, and    *)
(* constituents = null exactly when its level is 1; every atom has level 0. *)

C26_ShapeInvariant ==
    /\ \A f \in FragmentsOf(state) :
          /\ Len(f.content) >= 1
          /\ f.level = Len(f.content)
          /\ (f.constituents = <<>>) <=> (f.level = 1)
          /\ f.constituents # <<>> => Len(f.constituents) = 2
    /\ \A a \in AtomsOf(state) : a.level = 0

\* an atom, a wrapper of a foreign reference and a composite are held, the
\* composite naming a deleted node
C26_AllShapesHeld ==
    /\ AtomsOf(state) # {}
    /\ \E w \in WrappersOf(state) : w.content[1] \in ForeignRefs
    /\ \E f \in CompositesOf(state) :
          \E i \in 1..2 : ~Present(f.constituents[i])

----------------------------------------------------------------------------
(* C27: loop invariant of ingestSequence.  When the construction loop       *)
(* processes length L >= 2 at offset i, the fragment registry already holds *)
(* entries for slice[0..L-1) and slice[1..L), so no fragment is skipped;    *)
(* hence when ingestSequence(items) returns from any reachable state, every *)
(* contiguous sub-sequence of the normalized ids has a fragment in the      *)
(* repository with exactly that content.                                    *)

\* the ids ingestSequence normalizes items to, from the current state
NormalizedIds(items) == mapBaseUris(Engine, items, <<>>).ret

\* st holds a fragment for every contiguous sub-sequence of ids
HoldsEverySubSequence(st, ids) ==
    \A i \in 1..Len(ids) : \A j \in i..Len(ids) :
        \E f \in FragmentsOf(st) : f.content = SubSeq(ids, i, j)

C27_IngestBuildsEverySubSequence ==
    \A items \in NonEmptySeqs(BuiltinValues) :
        \E r \in {ingestSequence(Engine, items)} :
            /\ ~r.threw
            /\ r.e.console = <<>>
            /\ HoldsEverySubSequence(r.e.state, NormalizedIds(items))

----------------------------------------------------------------------------
(* C28: no listener runs in the middle of a mutating operation.  During one *)
(* ingestSequence call no listener is invoked between the call's first and  *)
(* last change to the repository or registries, so a listener never         *)
(* observes a state in which an atom created by the in-progress ingest has  *)
(* no wrapper yet or the lattice of the ingested sequence is only partly    *)
(* built.                                                                   *)

\* st holds an atom that st0 does not hold and that no fragment of st wraps
AtomWithoutWrapper(st0, st) ==
    \E a \in AtomsOf(st) \ AtomsOf(st0) :
        \A w \in WrappersOf(st) : w.content # <<a.id>>

C28_NoListenerInsideIngest ==
    \A items \in NonEmptySeqs(NotifyValues) :
        \E r \in {ingestSequence(Engine, items)} :
            \A i \in 1..Len(r.e.notified) :
                LET saw == r.e.notified[i].saw IN
                /\ saw = state \/ saw = r.e.state
                /\ ~AtomWithoutWrapper(state, saw)

----------------------------------------------------------------------------
(* C29: reference pass-through.  An item of ingestSequence whose string     *)
(* form contains '://' or starts with 'did:' creates no atom and is used    *)
(* unchanged as the content id, whether or not a node with that id exists;  *)
(* its singleton wrapper has content [item], constituents null, and height  *)
(* 1 when the id is not in the repository or height(node) + 1 when it is.   *)

\* the string contains '://' or starts with 'did:'
ShapedLikeReference(str) == includes(str, "://") \/ startsWith(str, "did:")

\* items an ingest may hold: raw values, ids of nodes, foreign and dangling ids
RefItems == RefValues \cup NodeIds \cup ForeignRefs \cup ReferencedIds

\* the height of the wrapper of id
WrapperHeight(id) == IF Present(id) THEN NodeOf(id).height + 1 ELSE 1

\* the call r of ingestSequence(items) passed the reference items[k] through
PassedThrough(r, items, k) ==
    LET item == items[k] IN
    /\ ~r.threw
    /\ \A a \in AtomsOf(r.e.state) \ AtomsOf(state) :
          /\ String(a.value) # item
          /\ \E j \in 1..Len(items) :
                items[j] = a.value /\ ~ShapedLikeReference(String(items[j]))
    /\ NormalizedIds(items)[k] = item
    /\ \E w \in FragmentsOf(r.e.state) :
          /\ w.content = <<item>>
          /\ w.constituents = <<>>
          /\ w.level = 1
          /\ w.height = WrapperHeight(item)
          /\ Len(items) = 1 => r.ret = w.id
    /\ Len(items) > 1 =>
          \E f \in FragmentsOf(r.e.state) :
              f.id = r.ret /\ Len(f.content) = Len(items) /\ f.content[k] = item

C29_ReferencePassThrough ==
    \A items \in NonEmptySeqs(RefItems) :
        \E r \in {ingestSequence(Engine, items)} :
            \A k \in 1..Len(items) :
                ShapedLikeReference(String(items[k])) => PassedThrough(r, items, k)

----------------------------------------------------------------------------
(* C30: postcondition of canonicalAtom.  For every value v, including       *)
(* strings that coincide with built-in property names of the registry's     *)
(* underlying map such as 'constructor', 'toString' or '__proto__',         *)
(* canonicalAtom(v) returns an id x such that getNode(x) is an atom whose   *)
(* serialized value equals the serialization of v, and the atom registry    *)
(* maps that serialization to x.                                            *)

C30_CanonicalAtomPostcondition ==
    \A v \in BuiltinValues :
        \E r \in {getCanonicalAtom(Engine, v)} :
            \E n \in {getNode(r.e, r.ret)} :
                /\ ~r.threw
                /\ IsNode(n)
                /\ typeIncludes(n, ATOM)
                /\ String(n.value) = String(v)
                /\ String(v) \in DOMAIN r.e.state.atomRegistry
                /\ r.e.state.atomRegistry[String(v)] = r.ret

----------------------------------------------------------------------------
(* C31: resolveContentString rendering.  For an atom it returns the string  *)
(* form of its value; for a fragment with one content id it returns the     *)
(* rendering of that child with no grouping added; for a fragment with two  *)
(* or more content ids it returns the children's renderings in content      *)
(* order joined by the separator and enclosed in one pair of brackets; it   *)
(* recurses over content, never over constituents.                          *)

\* the rendering of id, read off the repository by recursion over content
RECURSIVE Rendering(_)
Rendering(id) ==
    IF ~Present(id) THEN Placeholder
    ELSE LET n == NodeOf(id) IN
         IF typeIncludes(n, ATOM) THEN String(n.value)
         ELSE IF Len(n.content) = 1 THEN Rendering(n.content[1])
         ELSE Str(<<"(">> \o Joined([i \in 1..Len(n.content) |-> Rendering(n.content[i])])
                      \o <<")">>)

C31_RenderingFollowsContent ==
    \A n \in NodesOf(state) :
        \E r \in {resolveContentString(Engine, n.id)} :
            /\ ~r.threw
            /\ r.ret = Rendering(n.id)

\* a composite holds a composite among its content, and a composite has lost
\* a constituent whose content is still held
C31_NestedAndStale ==
    /\ \E f, g \in CompositesOf(state) : \E i \in 1..2 : f.content[i] = g.id
    /\ \E f \in CompositesOf(state) :
          \E i \in 1..2 : ~Present(f.constituents[i]) /\ Present(f.content[i])

----------------------------------------------------------------------------
(* C32: full-length result.  For every non-empty items list and every       *)
(* reachable state, the id returned by ingestSequence(items) is the         *)
(* fragment whose content equals the whole normalized id list (content      *)
(* length = number of items, equal to getFragmentUri(normalized ids)); the  *)
(* skip branch for missing constituents is never taken and a partial        *)
(* result with content length < N is never returned, also when items        *)
(* contain unresolved foreign references.                                   *)

\* r returns the fragment of st whose content is the whole list ids
ReturnsFragmentOf(r, ids) ==
    /\ ~r.threw
    /\ r.e.console = <<>>
    /\ \E f \in FragmentsOf(r.e.state) :
          /\ f.id = r.ret
          /\ Len(f.content) = Len(ids)
          /\ f.content = ids
    /\ getFragmentUri(r.e, ids) = r.ret

C32_FullLengthResult ==
    \A items \in NonEmptySeqs(BuiltinValues \cup ForeignRefs) :
        ReturnsFragmentOf(ingestSequence(Engine, items), NormalizedIds(items))

----------------------------------------------------------------------------
(* C33: round trip ingest -> parent query.  After ingestSequence([x, y])    *)
(* returns P for any two items x, y (raw values, atom ids or fragment ids), *)
(* findParentNode(n(x), n(y)) returns P, where n(x) is the normalized id of *)
(* x (the atom id for a raw value, the item itself for an identifier).      *)

\* the parent query on the normalized ids of x and y, asked after the ingest
\* of [x, y], answers the id the ingest returned
ParentQueryFinds(x, y) ==
    \E r \in {ingestSequence(Engine, <<x, y>>)} :
        /\ ~r.threw
        /\ \E ids \in {NormalizedIds(<<x, y>>)} :
              findParentNode(r.e, ids[1], ids[2]) = Value(r.ret)

C33_IngestThenParentQuery ==
    \A x, y \in RefValues \cup {n.id : n \in NodesOf(state)} : ParentQueryFinds(x, y)

----------------------------------------------------------------------------
(* C34: unique parent per constituent pair.  In every reachable state (with *)
(* or without deletions) no two distinct fragments in the repository have   *)
(* the same non-null constituents pair, so the result of findParentNode     *)
(* does not depend on the scan order.                                       *)

Reversed(q) == [i \in 1..Len(q) |-> q[Len(q) + 1 - i]]

C34_UniqueParentPerPair ==
    LET repo == state.nodeRepository
        composite(n) == typeIncludes(n, FRAGMENT) /\ n.constituents # <<>>
    IN /\ \A i, j \in 1..Len(repo) :
             /\ composite(repo[i]) /\ composite(repo[j])
             /\ repo[i].constituents = repo[j].constituents
             => i = j
       /\ \A i \in 1..Len(repo) :
             composite(repo[i]) =>
                 LET c == repo[i].constituents
                 IN scanParent(repo, 1, c[1], c[2])
                        = scanParent(Reversed(repo), 1, c[1], c[2])

\* two composites are held after a deletion took a constituent of one of them
C34_TwoParentsAfterDeletion ==
    \E f, g \in CompositesOf(state) :
        /\ f.id # g.id
        /\ \E i \in 1..2 : ~Present(g.constituents[i])

----------------------------------------------------------------------------
(* C35: acyclic references and termination.  In every reachable state,      *)
(* every content id and constituent id of a fragment that refers to a node  *)
(* present in the repository refers to a node created strictly before that  *)
(* fragment, so the content graph has no cycle and resolveContentString     *)
(* terminates for every id.                                                 *)

\* the positions of the repository, which is kept in creation order, that
\* hold a node with this id
PositionsOf(id) ==
    {j \in 1..Len(state.nodeRepository) : state.nodeRepository[j].id = id}

C35_ReferencesPointBack ==
    LET repo == state.nodeRepository IN
    \A i \in 1..Len(repo) :
        /\ typeIncludes(repo[i], FRAGMENT) =>
              /\ \A k \in 1..Len(repo[i].content) :
                    \A j \in PositionsOf(repo[i].content[k]) : j < i
              /\ \A k \in 1..Len(repo[i].constituents) :
                    \A j \in PositionsOf(repo[i].constituents[k]) : j < i
        /\ \E r \in {resolveContentString(Engine, repo[i].id)} :
              ~r.threw /\ IsString(r.ret)

\* a wrapper holds a fragment that is present, and a fragment holds an id
\* that names no node of the repository
C35_FragmentOfFragmentAndStale ==
    /\ \E w \in WrappersOf(state), f \in FragmentsOf(state) : w.content[1] = f.id
    /\ \E f \in FragmentsOf(state) :
          \E k \in 1..Len(f.content) : f.content[k] \in AbsentIds

----------------------------------------------------------------------------
(* C36: invariants A1, F1 and R1 hold at every point where a listener is    *)
(* invoked and after every operation even when listeners re-enter mutating  *)
(* operations (canonicalAtom, ingestSequence, deleteNode, reset) from       *)
(* inside a notification callback, because every notification is fired     *)
(* only when the repository and both registries agree.                      *)

\* A1, F1 and R1 in st: one atom per serialized value, one fragment per
\* content list, and registries and repository that mirror each other
Agree(st) ==
    /\ \A i, j \in 1..Len(st.nodeRepository) :
          st.nodeRepository[i].id = st.nodeRepository[j].id => i = j
    /\ \A a, b \in AtomsOf(st) : a # b => String(a.value) # String(b.value)
    /\ \A f, g \in FragmentsOf(st) : f # g => f.content # g.content
    /\ \A a \in AtomsOf(st) : KeysOf(st.atomRegistry, a.id) = {String(a.value)}
    /\ \A f \in FragmentsOf(st) :
          KeysOf(st.fragmentRegistry, f.id) = {JSONstringify(f.content)}
    /\ \A k \in DOMAIN st.atomRegistry :
          \E a \in AtomsOf(st) : a.id = st.atomRegistry[k]
    /\ \A k \in DOMAIN st.fragmentRegistry :
          \E f \in FragmentsOf(st) : f.id = st.fragmentRegistry[k]

\* the engine agrees when the call returns and whenever a listener is called
AgreesThroughout(r) ==
    /\ Agree(r.e.state)
    /\ \A i \in 1..Len(r.e.notified) : Agree(r.e.notified[i].saw)

C36_InvariantsUnderReentrancy ==
    /\ Agree(state)
    /\ \A items \in NonEmptySeqs(ReentrantValues) :
          AgreesThroughout(ingestSequence(Engine, items))
    /\ \A v \in ReentrantValues : AgreesThroughout(getCanonicalAtom(Engine, v))
    /\ \A id \in NodeIds : AgreesThroughout(deleteNode(Engine, id))
    /\ AgreesThroughout(reset(Engine))

\* two callbacks that call the engine are subscribed, and an ingest from here
\* shows a listener an atom that has no wrapper yet and ends in another state
\* than it would with nobody subscribed
C36_ListenerChangesTheIngest ==
    /\ Len(listeners) = 2
    /\ state.nodeRepository # <<>>
    /\ \E items \in NonEmptySeqs(ReentrantValues) :
          \E r \in {ingestSequence(Engine, items)} :
              /\ \E i \in 1..Len(r.e.notified) :
                    AtomWithoutWrapper(state, r.e.notified[i].saw)
              /\ r.e.state
                    # ingestSequence([Engine EXCEPT !.listeners = <<>>], items).e.state

----------------------------------------------------------------------------
(* C37: minted ids are recognized as references.  For every authority that  *)
(* setFederationConfig accepts, every id returned by canonicalAtom or       *)
(* ingestSequence, when passed back as an item of ingestSequence, is passed *)
(* through as a reference to the existing node and never turned into a new  *)
(* atom whose value is the id string.                                       *)

\* an authority written without a scheme, which setFederationConfig takes as
\* it takes any string
SchemelessAuthorities == {Str(<<"example.org">>)}

\* r returned an id; ingestSequence([id]) wraps that id and makes no atom
PassedBack(r) ==
    \E back \in {ingestSequence(After(r), <<r.ret>>)} :
        /\ ~back.threw
        /\ AtomsOf(back.e.state) = AtomsOf(r.e.state)
        /\ \E w \in WrappersOf(back.e.state) :
              w.id = back.ret /\ w.content = <<r.ret>>

MintedIdsPassBack(authorities) ==
    \A newAuthority \in authorities, newAgent \in Agents :
        \E c \in {setFederationConfig(Engine, newAuthority, newAgent)} :
            /\ \A v \in ConfigValues : PassedBack(getCanonicalAtom(After(c), v))
            /\ \A items \in NonEmptySeqs(ConfigValues) :
                  PassedBack(ingestSequence(After(c), items))

C37_MintedIdsAreReferences ==
    MintedIdsPassBack(Authorities \cup SchemelessAuthorities)

----------------------------------------------------------------------------
(* C38: listener dispatch.  One notification invokes the listeners          *)
(* registered at its start in subscription order, each registration once;   *)
(* when the same callback has been subscribed twice, calling one of the two *)
(* returned unsubscribe functions removes only that one registration, so    *)
(* the callback is still invoked once by the next notification.             *)

\* the registrations of callback l in the list q
Registrations(q, l) == Len(SelectSeq(q, LAMBDA x : x = l))

\* reset and deleteNode notify once: every registration is called, in order
DispatchInOrder ==
    /\ OneNotification(listeners, reset(Engine).e.notified)
    /\ \A id \in NodeIds : OneNotification(listeners, deleteNode(Engine, id).e.notified)

\* the calls to l in the next notification once l's closure has been called
CallsAfterUnsubscribe(l) ==
    CallsTo(reset([Engine EXCEPT !.listeners = unsubscribe(listeners, l)]), l)

C38_UnsubscribeRemovesOneRegistration ==
    /\ DispatchInOrder
    /\ \A l \in Callbacks :
          Registrations(listeners, l) = 2
              => /\ Registrations(unsubscribe(listeners, l), l) = 1
                 /\ Len(CallsAfterUnsubscribe(l)) = 1

(* C38 as amended: when the same callback has been subscribed twice,        *)
(* calling one of the two returned unsubscribe functions removes both       *)
(* registrations, so the callback is not invoked by the next notification.  *)
C38_UnsubscribeRemovesEveryRegistration ==
    /\ DispatchInOrder
    /\ \A l \in Callbacks :
          Registrations(listeners, l) = 2
              => /\ Registrations(unsubscribe(listeners, l), l) = 0
                 /\ CallsAfterUnsubscribe(l) = <<>>

\* one callback is registered twice and the repository holds nodes
C38_SubscribedTwice ==
    /\ \E l \in Callbacks : Registrations(listeners, l) = 2
    /\ NodesOf(state) # {}

====
